---------------------------- MODULE Spec2Model ----------------------------
(***************************************************************************)
(* PyIntfLab: a model of the five command-line programs of the repository  *)
(* (RunStack.py, Stack.py, download_S1_SLC_dem.py, download_S1_SLC_orbit.py*)
(* and unzip_S1_SLC.py).  One run of the system is one run of one program:  *)
(* `prog' says which.  The file system, the user at the prompt, the remote  *)
(* listing and the external commands are the environment: what they answer  *)
(* is chosen nondeterministically.                                          *)
(***************************************************************************)
EXTENDS Integers, Sequences, FiniteSets, TLC

VARIABLES
    prog,            \* which program this run executes
    pc,              \* position of the main thread of that program
    exitCode,        \* -1 while the process runs, then its exit status
    effects,         \* kinds of side effect performed so far
    success,         \* return value of the program's worker function
    cpu,             \* what multiprocessing.cpu_count() answers
    \* ---- RunStack.py
    runDir,          \* run_files_dir on disk: "missing", "notdir" or "dir"
    runFiles,        \* basenames of the run_* files in run_files_dir
    expected_files,  \* --expected-files
    scripts,         \* find_run_files' sorted list
    i,               \* loop variable of run_stack_processing
    success_count,
    invoked,         \* history: <<step, script, outcome>> per subprocess.run call
    \* ---- unzip_S1_SLC.py
    entry,           \* "script": python unzip_S1_SLC.py; "function": its functions called
    dataDir,         \* data_dir on disk: "missing", "notdir" or "dir"
    dataFiles,       \* names of the *.zip files in data_dir
    archTop,         \* per zip name: the top-level directory its entries live under
    n_jobs_arg,      \* the caller's n_jobs, 0 for None
    n_jobs,          \* the pool size handed to Parallel, 0 before it is computed
    zip_files,       \* get_S1_zip_files' sorted list
    task,            \* per task: [st, k, ret, touched]
    targetFiles,     \* target_dir: the set of <<directory, entry>> extracted
    logs,            \* target_dir: log file name -> its lines
    results,         \* what Parallel returned
    successful,
    failed,
    run,             \* number of the current unzip_S1_SLC_list call
    extractedOK,     \* history: zip names an earlier call extracted and returned True for
    \* ---- download_S1_SLC_orbit.py
    zippedDir,       \* zipped_dir on disk: "missing" or "dir"
    zippedFiles,     \* names of the files in zipped_dir
    remote,          \* the orbit files the remote listing names
    lst,             \* the entries split from the listing page
    download_tasks,  \* the list of [url, save_path]
    dl,              \* per download task: pending, get, write, ok or failed
    orbitFiles,      \* orbits_dir: the paths opened for writing so far
    njobs,           \* the pool size of the downloads
    \* ---- Stack.py and download_S1_SLC_dem.py
    lat_min, lat_max, lon_min, lon_max,
    nalks, nrlks,
    demDir,          \* dem_dir on disk: "missing", "empty" (no *wgs84 file) or "found"
    coordsOK,        \* what validate_coordinates returned, "none" before
    demBox           \* the box handed to dem.py, <<>> before

rsVars == <<runDir, runFiles, expected_files, scripts, i, success_count, invoked>>
uzVars == <<entry, dataDir, dataFiles, archTop, n_jobs_arg, n_jobs, zip_files, task,
            targetFiles, logs, results, successful, failed, run, extractedOK>>
obVars == <<zippedDir, zippedFiles, remote, lst, download_tasks, dl, orbitFiles, njobs>>
coVars == <<lat_min, lat_max, lon_min, lon_max, nalks, nrlks, demDir, coordsOK, demBox>>
vars == <<prog, pc, exitCode, effects, success, cpu, rsVars, uzVars, obVars, coVars>>

---------------------------------------------------------------------------
(* Bounds of the model. *)
MaxExpected == 3
\* entries per archive
MaxEntries == 2
\* calls of unzip_S1_SLC_list on the same target_dir
MaxRuns == 2
\* cpu counts and explicit n_jobs the pool size is computed for
MaxCpu == 36
MaxJobsArg == 3
\* a coordinate of the model is a multiple of 1/Scale degree
Scale == 2

\* the cpu counts the batches are explored with
BatchCpus == {4}

---------------------------------------------------------------------------
(* Strings are sequences of one-character strings, so that slicing,        *)
(* substring tests and sorting are computed as Python computes them.       *)

Alphabet ==
    <<".", "0", "1", "2", "3", "4", "5", "6", "7", "8", "9",
      "A", "E", "F", "S", "_",
      "a", "b", "d", "g", "i", "l", "n", "o", "p", "r", "u", "x", "z">>

Ord(c) == CHOOSE k \in 1..Len(Alphabet) : Alphabet[k] = c

\* Python's str < str: lexicographic by code point, a proper prefix first.
StrLess(a, b) ==
    \E k \in 1..(Len(b)) :
        /\ \A j \in 1..(k-1) : j <= Len(a) /\ a[j] = b[j]
        /\ \/ Len(a) = k - 1
           \/ (k <= Len(a) /\ Ord(a[k]) < Ord(b[k]))

\* p in s
IsSubstr(p, s) ==
    \E k \in 0..(Len(s) - Len(p)) : \A j \in 1..Len(p) : s[k + j] = p[j]

RECURSIVE SortedSeq(_)
\* sorted(S) for a set of distinct strings
SortedSeq(S) ==
    IF S = {} THEN <<>>
    ELSE LET m == CHOOSE x \in S : \A y \in S \ {x} : StrLess(x, y)
         IN  <<m>> \o SortedSeq(S \ {m})

DigitChar(d) == Alphabet[d + 2]

RECURSIVE Digits(_)
Digits(n) == IF n < 10 THEN <<DigitChar(n)>> ELSE Digits(n \div 10) \o <<DigitChar(n % 10)>>

\* f'{n:02d}'
Fmt02d(n) == IF n < 10 THEN <<"0">> \o Digits(n) ELSE Digits(n)

RunPrefix == <<"r", "u", "n", "_">>

\* f'run_{i:02d}'
StepPattern(k) == RunPrefix \o Fmt02d(k)

\* the basenames a run_files_dir may hold (all match the glob run_*)
ScriptNames ==
    { RunPrefix \o <<"0", "1">>,
      RunPrefix \o <<"0", "1", "b">>,
      RunPrefix \o <<"0", "2">>,
      RunPrefix \o <<"0", "3">>,
      RunPrefix \o <<"x">> }

---------------------------------------------------------------------------
(* The state of the programs that do not run. *)

IdleRunStack ==
    /\ runDir = "missing" /\ runFiles = {} /\ expected_files = 0 /\ scripts = <<>>
    /\ i = 0 /\ success_count = 0 /\ invoked = <<>>

IdleUnzip ==
    /\ entry = "none" /\ dataDir = "missing" /\ dataFiles = {} /\ archTop = <<>>
    /\ n_jobs_arg = 0 /\ n_jobs = 0 /\ zip_files = <<>> /\ task = <<>>
    /\ targetFiles = {} /\ logs = <<>> /\ results = <<>>
    /\ successful = -1 /\ failed = -1 /\ run = 0 /\ extractedOK = {}

IdleOrbit ==
    /\ zippedDir = "missing" /\ zippedFiles = {} /\ remote = {} /\ lst = <<>>
    /\ download_tasks = <<>> /\ dl = <<>> /\ orbitFiles = {} /\ njobs = 0

IdleCoord ==
    /\ lat_min = 0 /\ lat_max = 0 /\ lon_min = 0 /\ lon_max = 0 /\ nalks = 0 /\ nrlks = 0
    /\ demDir = "missing" /\ coordsOK = "none" /\ demBox = <<>>

---------------------------------------------------------------------------
(* RunStack.py *)

\* find_run_files: an error, or the sorted list
FindRunFilesRaises == runDir # "dir" \/ runFiles = {}

find_run_files == SortedSeq(runFiles)

\* [s for s in scripts if f'run_{i:02d}' in os.path.basename(s)]
matched_scripts(k) == SelectSeq(scripts, LAMBDA s : IsSubstr(StepPattern(k), s))

\* outcomes of one step's try block: the log cannot be opened, run.py is
\* missing, run.py exits non-zero, run.py exits zero
StepOutcomes == {"logfail", "missing", "nonzero", "ok"}

\* the except clauses of the step: which outcomes end the run
\* (variant: subprocess.run without check=True, a non-zero exit passes)
StepIsFatalUnchecked(o) == o \in {"logfail", "missing"}
StepIsFatal(o) == o # "ok"

\* the value run_stack_processing returns after the loop
FoundAmongExpected ==
    Len(SelectSeq(scripts, LAMBDA s : \E k \in 1..expected_files : IsSubstr(StepPattern(k), s)))

InitRunStack ==
    /\ prog = "RunStack"
    /\ pc = "find"
    /\ exitCode = -1
    /\ effects = {}
    /\ success = "none"
    /\ cpu = 1
    /\ IdleUnzip
    /\ IdleOrbit
    /\ IdleCoord
    /\ runDir \in {"missing", "notdir", "dir"}
    /\ runFiles \in (IF runDir = "dir" THEN SUBSET ScriptNames ELSE {{}})
    /\ expected_files \in 1..MaxExpected
    /\ scripts = <<>>
    /\ i = 0
    /\ success_count = 0
    /\ invoked = <<>>

\* lines 67-85: find the run files, compare their number, create logs/
RS_Find ==
    /\ prog = "RunStack" /\ pc = "find"
    /\ IF FindRunFilesRaises
       THEN /\ success' = FALSE
            /\ pc' = "returned"
            /\ UNCHANGED <<scripts, i, effects>>
       ELSE /\ scripts' = find_run_files
            /\ IF Len(find_run_files) # expected_files
               THEN /\ pc' = "prompt"
                    /\ UNCHANGED <<i, effects, success>>
               ELSE /\ effects' = effects \cup {"mkdir"}
                    /\ i' = 1
                    /\ pc' = "loop"
                    /\ UNCHANGED success
    /\ UNCHANGED <<prog, exitCode, cpu, uzVars, obVars, coVars, runDir, runFiles, expected_files, success_count, invoked>>

\* lines 78-85: the confirmation prompt
RS_Prompt ==
    /\ prog = "RunStack" /\ pc = "prompt"
    /\ \E response \in {"y", "n"} :
         IF response # "y"
         THEN /\ success' = FALSE
              /\ pc' = "returned"
              /\ UNCHANGED <<i, effects>>
         ELSE /\ effects' = effects \cup {"mkdir"}
              /\ i' = 1
              /\ pc' = "loop"
              /\ UNCHANGED success
    /\ UNCHANGED <<prog, exitCode, cpu, uzVars, obVars, coVars, runDir, runFiles, expected_files, scripts, success_count, invoked>>

\* lines 91-133: one iteration of the loop over the steps
RS_Step ==
    /\ prog = "RunStack" /\ pc = "loop" /\ i <= expected_files
    /\ IF matched_scripts(i) = <<>>
       THEN /\ i' = i + 1
            /\ UNCHANGED <<pc, success, success_count, invoked, effects>>
       ELSE \E o \in StepOutcomes :
            /\ effects' = effects \cup (IF o = "logfail" THEN {} ELSE {"write", "exec"})
            /\ invoked' = IF o = "logfail" THEN invoked
                          ELSE Append(invoked, <<i, matched_scripts(i)[1], o>>)
            /\ IF StepIsFatal(o)
               THEN /\ success' = FALSE
                    /\ pc' = "returned"
                    /\ UNCHANGED <<i, success_count>>
               ELSE /\ success_count' = success_count + 1
                    /\ i' = i + 1
                    /\ UNCHANGED <<pc, success>>
    /\ UNCHANGED <<prog, exitCode, cpu, uzVars, obVars, coVars, runDir, runFiles, expected_files, scripts>>

\* lines 135-142: the summary and the return value
RS_Return ==
    /\ prog = "RunStack" /\ pc = "loop" /\ i > expected_files
    /\ success' = (success_count = FoundAmongExpected)
    /\ pc' = "returned"
    /\ UNCHANGED <<prog, exitCode, effects, cpu, uzVars, obVars, rsVars, coVars>>

\* line 172: sys.exit(0 if success else 1)
RS_Exit ==
    /\ prog = "RunStack" /\ pc = "returned"
    /\ exitCode' = IF success = TRUE THEN 0 ELSE 1
    /\ pc' = "exited"
    /\ UNCHANGED <<prog, effects, success, cpu, uzVars, obVars, rsVars, coVars>>

NextRunStack == RS_Find \/ RS_Prompt \/ RS_Step \/ RS_Return \/ RS_Exit

SpecRunStack == InitRunStack /\ [][NextRunStack]_vars

---------------------------------------------------------------------------
(* unzip_S1_SLC.py *)

S1 == <<"S", "1">>
DotSAFE == <<".", "S", "A", "F", "E">>
DotZip == <<".", "z", "i", "p">>

\* the *.zip names a data_dir may hold
ZipA == S1 \o <<"a">> \o DotSAFE \o DotZip
ZipNames ==
    { ZipA,
      S1 \o <<"b">> \o DotSAFE \o DotZip,
      S1 \o <<"x">> \o DotZip,
      <<"d">> \o DotSAFE \o DotZip }

\* s.startswith(p)
StartsWith(p, s) == Len(p) <= Len(s) /\ SubSeq(s, 1, Len(p)) = p

\* pathlib's Path(name).stem: the name without its last suffix
Stem(name) ==
    LET dots == { k \in 2..(Len(name) - 1) : name[k] = "." }
    IN  IF dots = {} THEN name
        ELSE SubSeq(name, 1, (CHOOSE k \in dots : \A j \in dots : j <= k) - 1)

\* lines 33-34: safe_name = zip_path.stem + ".SAFE"
safe_name(z) == Stem(z) \o DotSAFE

\* line 42: f'unzip_{zip_path.stem}.log'
log_file(z) == <<"u", "n", "z", "i", "p", "_">> \o Stem(z) \o <<".", "l", "o", "g">>

\* line 149: the filter of get_S1_zip_files
IsS1Zip(zip_name) == StartsWith(S1, zip_name) /\ IsSubstr(DotSAFE, zip_name)

\* lines 135-154: get_S1_zip_files, when it does not raise
get_S1_zip_files == SortedSeq({ z \in dataFiles : IsS1Zip(z) })

Min2(a, b) == IF a < b THEN a ELSE b
Max2(a, b) == IF a > b THEN a ELSE b

\* line 100: min(max(int(cpu_count() / 4), 2), 8)
\* (variant: a floor of 1 instead of 2)
PoolSizeNoFloor(c) == Min2(Max2(c \div 4, 1), 8)
PoolSizeUnzip(c) == Min2(Max2(c \div 4, 2), 8)

\* lines 99-100: the pool size of unzip_S1_SLC_list
JobsUnzip(arg, c) == IF arg = 0 THEN PoolSizeUnzip(c) ELSE arg

RECURSIVE SumBool(_)
\* sum(results) of a list of booleans
SumBool(rs) == IF rs = <<>> THEN 0 ELSE (IF Head(rs) THEN 1 ELSE 0) + SumBool(Tail(rs))

\* lines 110-111: the counts of unzip_S1_SLC_list
\* (variant: failed taken as len(results))
CountsFailedAsTotal(rs) == [successful |-> SumBool(rs), failed |-> Len(rs)]
Counts(rs) == [successful |-> SumBool(rs), failed |-> Len(rs) - SumBool(rs)]

\* safe_dir.exists()
DirExists(d) == \E f \in targetFiles : f[1] = d

Tasks == 1..Len(task)
Running(t) == task[t].st \in {"openlog", "openzip", "extract", "handler"}
Settled(t) == task[t].st \in {"success", "failure"}
PendingTask == [st |-> "pending", k |-> 0, touched |-> {}]

\* lines 36-39: the skip test of unzip_S1_SLC
Skips(z) == DirExists(safe_name(z))

InitUnzipWith(cpus, jobsArgs, fileSets) ==
    /\ prog = "unzip"
    /\ exitCode = -1
    /\ effects = {}
    /\ success = "none"
    /\ IdleRunStack
    /\ IdleOrbit
    /\ IdleCoord
    /\ entry \in {"script", "function"}
    /\ pc = IF entry = "script" THEN "main" ELSE "get"
    /\ cpu \in (IF entry = "script" THEN {1} ELSE cpus)
    /\ n_jobs_arg \in (IF entry = "script" THEN {0} ELSE jobsArgs)
    /\ dataDir \in (IF entry = "script" THEN {"missing"} ELSE {"missing", "notdir", "dir"})
    /\ dataFiles \in (IF dataDir = "dir" THEN fileSets ELSE {{}})
    /\ archTop \in [dataFiles -> BOOLEAN]
    /\ n_jobs = 0 /\ zip_files = <<>> /\ task = <<>>
    /\ targetFiles = {} /\ logs = <<>> /\ results = <<>>
    /\ successful = -1 /\ failed = -1 /\ run = 0 /\ extractedOK = {}

\* the top-level directory of archive z: its stem (X.SAFE.zip holds X.SAFE/), or
\* the stem with .SAFE appended
TopDir(z) == IF archTop[z] THEN Stem(z) ELSE safe_name(z)

\* lines 175-177: the script calls init_pysarlab(), a name the module neither
\* defines nor imports: NameError, and the interpreter exits with status 1
U_ScriptMain ==
    /\ prog = "unzip" /\ pc = "main"
    /\ pc' = "exited"
    /\ exitCode' = 1
    /\ UNCHANGED <<prog, effects, success, cpu, rsVars, coVars, obVars, uzVars>>

\* lines 133-154 and 184-189: get_S1_zip_files and the test of its result
U_GetFiles ==
    /\ prog = "unzip" /\ pc = "get"
    /\ IF dataDir # "dir"
       THEN pc' = "crashed" /\ UNCHANGED zip_files
       ELSE /\ zip_files' = get_S1_zip_files
            /\ pc' = IF get_S1_zip_files = <<>> THEN "nofiles" ELSE "list"
    /\ UNCHANGED <<prog, exitCode, effects, success, cpu, rsVars, coVars, obVars, entry, dataDir, dataFiles,
                   archTop, n_jobs_arg, n_jobs, task, targetFiles, logs, results,
                   successful, failed, run, extractedOK>>

\* lines 91-102: unzip_S1_SLC_list up to the Parallel call
U_List ==
    /\ prog = "unzip" /\ pc = "list"
    /\ effects' = effects \cup {"mkdir"}
    /\ n_jobs' = JobsUnzip(n_jobs_arg, cpu)
    /\ task' = [t \in 1..Len(zip_files) |-> PendingTask]
    /\ run' = run + 1
    /\ pc' = "parallel"
    /\ UNCHANGED <<prog, exitCode, success, cpu, rsVars, coVars, obVars, entry, dataDir, dataFiles, archTop,
                   n_jobs_arg, zip_files, targetFiles, logs, results, successful, failed,
                   extractedOK>>

UnzipFrame == UNCHANGED <<prog, pc, exitCode, success, cpu, rsVars, coVars, obVars, entry, dataDir, dataFiles,
                          archTop, n_jobs_arg, n_jobs, zip_files, results, successful,
                          failed, run, extractedOK>>

\* lines 105-107 and 28-39: a free worker takes the next task; unzip_S1_SLC
\* starts with the skip test
U_Begin(t) ==
    /\ prog = "unzip" /\ pc = "parallel"
    /\ task[t].st = "pending"
    /\ \A u \in 1..(t-1) : task[u].st # "pending"
    /\ \A u \in Tasks : task[u].st # "raised"
    /\ Cardinality({ u \in Tasks : Running(u) }) < n_jobs
    /\ task' = [task EXCEPT ![t].st = IF Skips(zip_files[t]) THEN "success" ELSE "openlog"]
    /\ UNCHANGED <<effects, targetFiles, logs>>
    /\ UnzipFrame

\* lines 45-46: open(log_file, 'w') and the header line
U_OpenLog(t) ==
    /\ prog = "unzip" /\ pc = "parallel"
    /\ task[t].st = "openlog"
    /\ \E ok \in BOOLEAN :
         IF ok
         THEN /\ logs' = (log_file(zip_files[t]) :> <<"header">>) @@ logs
              /\ effects' = effects \cup {"write"}
              /\ task' = [task EXCEPT ![t].st = "openzip",
                                      ![t].touched = task[t].touched \cup {"log"}]
         ELSE /\ task' = [task EXCEPT ![t].st = "handler"]
              /\ UNCHANGED <<logs, effects>>
    /\ UNCHANGED targetFiles
    /\ UnzipFrame

\* lines 48-53: zipfile.ZipFile(zip_file, 'r'), namelist, two log lines
U_OpenZip(t) ==
    /\ prog = "unzip" /\ pc = "parallel"
    /\ task[t].st = "openzip"
    /\ \E ok \in BOOLEAN :
         IF ok
         THEN /\ logs' = [logs EXCEPT ![log_file(zip_files[t])] = Append(@, "total")]
              /\ task' = [task EXCEPT ![t].st = "extract", ![t].k = 1,
                                      ![t].touched = task[t].touched \cup {"zip"}]
         ELSE /\ task' = [task EXCEPT ![t].st = "handler"]
              /\ UNCHANGED logs
    /\ UNCHANGED <<effects, targetFiles>>
    /\ UnzipFrame

\* lines 55-62: one iteration of the extraction loop; after the last entry the
\* completion line and return True
U_Extract(t) ==
    /\ prog = "unzip" /\ pc = "parallel"
    /\ task[t].st = "extract"
    /\ \E ok \in BOOLEAN :
         /\ logs' = [logs EXCEPT ![log_file(zip_files[t])] =
                        IF ok /\ task[t].k = MaxEntries
                        THEN Append(Append(@, "entry"), "completed")
                        ELSE Append(@, "entry")]
         /\ IF ok
            THEN /\ targetFiles' = targetFiles \cup {<<TopDir(zip_files[t]), task[t].k>>}
                 /\ task' = [task EXCEPT
                        ![t].st = IF task[t].k = MaxEntries THEN "success" ELSE "extract",
                        ![t].k = task[t].k + 1,
                        ![t].touched = task[t].touched \cup {"entry"}]
            ELSE /\ task' = [task EXCEPT ![t].st = "handler"]
                 /\ UNCHANGED targetFiles
    /\ UNCHANGED effects
    /\ UnzipFrame

\* lines 64-78: the except clause: append the error to the log (an open that
\* can fail as the first one can), remove safe_dir if it exists, return False
U_Handler(t) ==
    /\ prog = "unzip" /\ pc = "parallel"
    /\ task[t].st = "handler"
    /\ \E ok \in BOOLEAN :
         IF ok
         THEN /\ logs' = IF log_file(zip_files[t]) \in DOMAIN logs
                         THEN [logs EXCEPT ![log_file(zip_files[t])] = Append(@, "error")]
                         ELSE (log_file(zip_files[t]) :> <<"error">>) @@ logs
              /\ effects' = effects \cup {"write"}
              /\ targetFiles' = { f \in targetFiles : f[1] # safe_name(zip_files[t]) }
              /\ task' = [task EXCEPT ![t].st = "failure"]
         ELSE /\ task' = [task EXCEPT ![t].st = "raised"]
              /\ UNCHANGED <<logs, effects, targetFiles>>
    /\ UnzipFrame

\* lines 105-107: an exception that left a worker is raised again by Parallel in
\* the caller; the tasks not yet finished are abandoned
U_Crash ==
    /\ prog = "unzip" /\ pc = "parallel"
    /\ \E t \in Tasks : task[t].st = "raised"
    /\ pc' = "crashed"
    /\ UNCHANGED <<prog, exitCode, effects, success, cpu, rsVars, coVars, obVars, uzVars>>

\* lines 105-122: Parallel returns the results in task order; the counts
U_Collect ==
    /\ prog = "unzip" /\ pc = "parallel"
    /\ \A t \in Tasks : Settled(t)
    /\ results' = [t \in Tasks |-> task[t].st = "success"]
    /\ successful' = Counts(results').successful
    /\ failed' = Counts(results').failed
    /\ pc' = "reported"
    /\ UNCHANGED <<prog, exitCode, effects, success, cpu, rsVars, coVars, obVars, entry, dataDir, dataFiles,
                   archTop, n_jobs_arg, n_jobs, zip_files, task, targetFiles, logs, run,
                   extractedOK>>

\* unzip_S1_SLC_list is called again with the same arguments
U_Rerun ==
    /\ prog = "unzip" /\ pc = "reported"
    /\ run < MaxRuns
    /\ extractedOK' = extractedOK \cup
          { zip_files[t] : t \in { u \in Tasks : task[u].st = "success" /\ "entry" \in task[u].touched } }
    /\ results' = <<>> /\ successful' = -1 /\ failed' = -1
    /\ task' = <<>>
    /\ pc' = "list"
    /\ UNCHANGED <<prog, exitCode, effects, success, cpu, rsVars, coVars, obVars, entry, dataDir, dataFiles,
                   archTop, n_jobs_arg, n_jobs, zip_files, targetFiles, logs, run>>

NextUnzip ==
    \/ U_ScriptMain \/ U_GetFiles \/ U_List
    \/ \E t \in Tasks : U_Begin(t)
    \/ \E t \in Tasks : U_OpenLog(t)
    \/ \E t \in Tasks : U_OpenZip(t)
    \/ \E t \in Tasks : U_Extract(t)
    \/ \E t \in Tasks : U_Handler(t)
    \/ U_Crash \/ U_Collect \/ U_Rerun

InitUnzip == InitUnzipWith(BatchCpus, {0, 1}, SUBSET ZipNames)

SpecUnzip == InitUnzip /\ [][NextUnzip]_vars

---------------------------------------------------------------------------
(* download_S1_SLC_orbit.py *)

SatA == <<"S", "1", "A">>
SatB == <<"S", "1", "B">>

\* the fixed parts of an SLC archive's name:
\* S1A_IW_SLC__1SDV_<start>T101010_<stop>T101037_057000_070000_<id>.zip
SlcMode == <<"_", "I", "W", "_", "S", "L", "C", "_", "_", "1", "S", "D", "V", "_">>
SlcStartTime == <<"T", "1", "0", "1", "0", "1", "0", "_">>
SlcStopTime == <<"T", "1", "0", "1", "0", "3", "7", "_", "0", "5", "7", "0", "0", "0", "_", "0", "7", "0", "0", "0", "0", "_">>

\* the fixed parts of a precise-orbit file's name (77 characters in all):
\* S1A_OPER_AUX_POEORB_OPOD_<made>T121500_V<start>T225942_<end>T005942.EOF
OrbKind == <<"_", "O", "P", "E", "R", "_", "A", "U", "X", "_", "P", "O", "E", "O", "R", "B", "_", "O", "P", "O", "D", "_", "2", "0", "2", "5", "0", "1", "2", "2", "T", "1", "2", "1", "5", "0", "0", "_", "V">>
OrbStartTime == <<"T", "2", "2", "5", "9", "4", "2", "_">>
OrbEndTime == <<"T", "0", "0", "5", "9", "4", "2", ".", "E", "O", "F">>

\* what the split of the listing page yields before its first href
ListingHead == <<"<", "h", "t", "m", "l", ">">>

\* f'{n:02d}' and f'{year}{month:02d}{day:02d}' of a date <<year, month, day>>
DateStr(dt) == Digits(dt[1]) \o Fmt02d(dt[2]) \o Fmt02d(dt[3])

SlcName(sat, dt, id) ==
    sat \o SlcMode \o DateStr(dt) \o SlcStartTime \o DateStr(dt) \o SlcStopTime \o id \o DotZip

OrbitName(sat, from, to) ==
    sat \o OrbKind \o DateStr(from) \o OrbStartTime \o DateStr(to) \o OrbEndTime

\* the calendar of datetime
IsLeap(y) == (y % 4 = 0 /\ y % 100 # 0) \/ y % 400 = 0
DaysInMonth(y, m) ==
    IF m = 2 THEN (IF IsLeap(y) THEN 29 ELSE 28)
    ELSE IF m \in {4, 6, 9, 11} THEN 30 ELSE 31

\* dt + timedelta(days=1), dt - timedelta(days=1)
NextDay(dt) ==
    IF dt[3] < DaysInMonth(dt[1], dt[2]) THEN <<dt[1], dt[2], dt[3] + 1>>
    ELSE IF dt[2] < 12 THEN <<dt[1], dt[2] + 1, 1>>
    ELSE <<dt[1] + 1, 1, 1>>
PrevDay(dt) ==
    IF dt[3] > 1 THEN <<dt[1], dt[2], dt[3] - 1>>
    ELSE IF dt[2] > 1 THEN <<dt[1], dt[2] - 1, DaysInMonth(dt[1], dt[2] - 1)>>
    ELSE <<dt[1] - 1, 12, 31>>

\* int(s) of a string of digits
DigitVal(c) == Ord(c) - 2
RECURSIVE ParseInt(_)
ParseInt(s) == IF s = <<>> THEN 0 ELSE 10 * ParseInt(SubSeq(s, 1, Len(s) - 1)) + DigitVal(s[Len(s)])

RECURSIVE Split(_, _)
\* s.split(sep) for a one-character sep
Split(s, sep) ==
    LET hits == { k \in 1..Len(s) : s[k] = sep }
    IN  IF hits = {} THEN <<s>>
        ELSE LET k == CHOOSE h \in hits : \A j \in hits : h <= j
             IN  <<SubSeq(s, 1, k - 1)>> \o Split(SubSeq(s, k + 1, Len(s)), sep)

\* s[:n]
Take(s, n) == SubSeq(s, 1, Min2(n, Len(s)))

\* s[-a:-b] for 0 < b < a
SliceFromEnd(s, a, b) == SubSeq(s, Max2(Len(s) - a, 0) + 1, Max2(Len(s) - b, 0))

\* lines 73-75: the acquisition date of a local archive
AcqDate(file) ==
    LET fields == Split(file, "_")
        date_str == Take(fields[Len(fields) - 4], 8)
    IN  <<ParseInt(SubSeq(date_str, 1, 4)), ParseInt(SubSeq(date_str, 5, 6)),
          ParseInt(SubSeq(date_str, 7, 8))>>

\* line 81: the date-window test of one listing entry
WindowMatches(file, filename) ==
    /\ SliceFromEnd(filename, 35, 27) = DateStr(PrevDay(AcqDate(file)))
    /\ SliceFromEnd(filename, 19, 11) = DateStr(NextDay(AcqDate(file)))

\* line 71-72: glob of os.path.join(zipped_dir, 'S1A*.zip')
GlobS1A(files) == { f \in files : StartsWith(SatA, f) /\ Len(f) >= 7
                                   /\ SubSeq(f, Len(f) - 3, Len(f)) = DotZip }

\* lines 82-85: one task
OrbitTask(filename) == [url |-> <<"ORBIT_URL">> \o filename,
                        save_path |-> <<"orbits_dir", "/">> \o filename]

RECURSIVE TasksOfFile(_, _)
\* lines 80-85: the inner loop over the listing
TasksOfFile(file, entries) ==
    IF entries = <<>> THEN <<>>
    ELSE (IF WindowMatches(file, Head(entries)) THEN <<OrbitTask(Head(entries))>> ELSE <<>>)
         \o TasksOfFile(file, Tail(entries))

RECURSIVE EnumerateTasks(_, _)
\* lines 72-85: the outer loop over the local archives
EnumerateTasks(files, entries) ==
    IF files = <<>> THEN <<>>
    ELSE TasksOfFile(Head(files), entries) \o EnumerateTasks(Tail(files), entries)

\* line 87: min(max(cpu_count() // 4, 2), 8)
PoolSizeOrbit(c) == Min2(Max2(c \div 4, 2), 8)

Day1 == <<2025, 1, 1>>
Day2 == <<2024, 3, 1>>

\* the archives a zipped_dir may hold
LocalZips ==
    { SlcName(SatA, Day1, <<"A">>), SlcName(SatA, Day1, <<"B">>),
      SlcName(SatA, Day2, <<"A">>), SlcName(SatB, Day1, <<"A">>) }

\* the orbit files the remote listing may name
RemoteOrbits ==
    { OrbitName(SatA, PrevDay(Day1), NextDay(Day1)),
      OrbitName(SatB, PrevDay(Day1), NextDay(Day1)),
      OrbitName(SatA, PrevDay(Day2), NextDay(NextDay(Day2))) }

\* the orders in which a set can be enumerated
Orders(S) == { q \in [1..Cardinality(S) -> S] : \A a, b \in DOMAIN q : a # b => q[a] # q[b] }

Downloads == 1..Len(dl)
Downloading(t) == dl[t] \in {"get", "write"}

InitOrbitWith(cpus, localSets, remoteSets) ==
    /\ prog = "orbit"
    /\ pc = "list"
    /\ exitCode = -1
    /\ effects = {}
    /\ success = "none"
    /\ cpu \in cpus
    /\ IdleRunStack
    /\ IdleUnzip
    /\ IdleCoord
    /\ zippedDir \in {"missing", "dir"}
    /\ zippedFiles \in (IF zippedDir = "dir" THEN localSets ELSE {{}})
    /\ remote \in remoteSets
    /\ lst = <<>> /\ download_tasks = <<>> /\ dl = <<>> /\ orbitFiles = {} /\ njobs = 0

OrbitFrame == UNCHANGED <<prog, pc, exitCode, effects, success, cpu, rsVars, coVars, uzVars,
                          zippedDir, zippedFiles, remote, lst, download_tasks, njobs>>

\* lines 67-88: the listing request, its split, the two loops and the pool size.
\* The request can fail: the exception is not caught and the script ends with 1.
O_List ==
    /\ prog = "orbit" /\ pc = "list"
    /\ effects' = effects \cup {"net"}
    /\ \/ /\ pc' = "exited"
          /\ exitCode' = 1
          /\ UNCHANGED <<lst, download_tasks, dl, njobs>>
       \/ \E entries \in Orders(remote), files \in Orders(GlobS1A(zippedFiles)) :
          /\ lst' = <<ListingHead>> \o entries
          /\ download_tasks' = EnumerateTasks(files, lst')
          /\ dl' = [t \in 1..Len(download_tasks') |-> "pending"]
          /\ njobs' = PoolSizeOrbit(cpu)
          /\ pc' = "parallel"
          /\ UNCHANGED exitCode
    /\ UNCHANGED <<prog, success, cpu, rsVars, coVars, uzVars, zippedDir, zippedFiles, remote, orbitFiles>>

\* lines 89-91: a free worker takes the next task
O_Begin(t) ==
    /\ prog = "orbit" /\ pc = "parallel"
    /\ dl[t] = "pending"
    /\ \A u \in 1..(t-1) : dl[u] # "pending"
    /\ Cardinality({ u \in Downloads : Downloading(u) }) < njobs
    /\ dl' = [dl EXCEPT ![t] = "get"]
    /\ UNCHANGED orbitFiles
    /\ OrbitFrame

\* lines 48-50: the GET, raise_for_status and open(save_path, 'wb'); any error
\* is caught at line 55 and printed
O_Get(t) ==
    /\ prog = "orbit" /\ pc = "parallel"
    /\ dl[t] = "get"
    /\ \E ok \in BOOLEAN :
         IF ok
         THEN /\ dl' = [dl EXCEPT ![t] = "write"]
              /\ orbitFiles' = orbitFiles \cup {download_tasks[t].save_path}
         ELSE /\ dl' = [dl EXCEPT ![t] = "failed"]
              /\ UNCHANGED orbitFiles
    /\ OrbitFrame

\* lines 51-56: the chunks are written; any error is caught and printed
O_Write(t) ==
    /\ prog = "orbit" /\ pc = "parallel"
    /\ dl[t] = "write"
    /\ \E ok \in BOOLEAN : dl' = [dl EXCEPT ![t] = IF ok THEN "ok" ELSE "failed"]
    /\ UNCHANGED orbitFiles
    /\ OrbitFrame

\* lines 93 and 115: every worker returned; the script ends, and with it the
\* process, with status 0
O_Finish ==
    /\ prog = "orbit" /\ pc = "parallel"
    /\ \A t \in Downloads : dl[t] \in {"ok", "failed"}
    /\ pc' = "exited"
    /\ exitCode' = 0
    /\ UNCHANGED <<prog, effects, success, cpu, rsVars, coVars, uzVars, zippedDir, zippedFiles, remote,
                   lst, download_tasks, dl, orbitFiles, njobs>>

NextOrbit ==
    \/ O_List
    \/ \E t \in Downloads : O_Begin(t)
    \/ \E t \in Downloads : O_Get(t)
    \/ \E t \in Downloads : O_Write(t)
    \/ O_Finish

InitOrbit == InitOrbitWith(BatchCpus, SUBSET LocalZips, SUBSET RemoteOrbits)

SpecOrbit == InitOrbit /\ [][NextOrbit]_vars

---------------------------------------------------------------------------
(* Stack.py and download_S1_SLC_dem.py *)
(* A coordinate c of the model stands for c / Scale degrees.               *)

LatLimit == 90
LonLimit == 180

\* validate_coordinates (the same text in both files): the four tests in order
\* (variant: > in place of >= in the first two tests)
validate_coordinates_strict_only ==
    IF lat_min > lat_max THEN FALSE
    ELSE IF lon_min > lon_max THEN FALSE
    ELSE IF ~(/\ -LatLimit * Scale <= lat_min /\ lat_min <= LatLimit * Scale
              /\ -LatLimit * Scale <= lat_max /\ lat_max <= LatLimit * Scale) THEN FALSE
    ELSE IF ~(/\ -LonLimit * Scale <= lon_min /\ lon_min <= LonLimit * Scale
              /\ -LonLimit * Scale <= lon_max /\ lon_max <= LonLimit * Scale) THEN FALSE
    ELSE TRUE
validate_coordinates ==
    IF lat_min >= lat_max THEN FALSE
    ELSE IF lon_min >= lon_max THEN FALSE
    ELSE IF ~(/\ -LatLimit * Scale <= lat_min /\ lat_min <= LatLimit * Scale
              /\ -LatLimit * Scale <= lat_max /\ lat_max <= LatLimit * Scale) THEN FALSE
    ELSE IF ~(/\ -LonLimit * Scale <= lon_min /\ lon_min <= LonLimit * Scale
              /\ -LonLimit * Scale <= lon_max /\ lon_max <= LonLimit * Scale) THEN FALSE
    ELSE TRUE

\* Stack.py, validate_parameters
validate_parameters == ~(nalks <= 0 \/ nrlks <= 0)

\* int(float(x)): the fraction is dropped, towards zero
IntOf(c) == IF c >= 0 THEN c \div Scale ELSE -((-c) \div Scale)

\* download_S1_SLC_dem.py lines 33-36: the box handed to dem.py, in degrees
DemBox == [lat_min_dem |-> IntOf(lat_min) - 1, lat_max_dem |-> IntOf(lat_max) + 1,
           lon_min_dem |-> IntOf(lon_min) - 1, lon_max_dem |-> IntOf(lon_max) + 1]

\* Stack.py, find_dem_file: it raises unless dem_dir is a directory with a *wgs84 file
FindDemFileRaises == demDir # "found"

\* the command-line values the two programs are run with
LatValues == { -95 * Scale, -90 * Scale, -10 * Scale - 1, 5 * Scale, 10 * Scale,
               10 * Scale + 1, 90 * Scale }
LonValues == { -180 * Scale - 1, -180 * Scale, -20 * Scale - 1, 20 * Scale + 1,
               180 * Scale, 180 * Scale + 1 }

InitCoord ==
    /\ prog \in {"Stack", "dem"}
    /\ pc = "validate"
    /\ exitCode = -1
    /\ effects = {}
    /\ success = "none"
    /\ cpu = 1
    /\ IdleRunStack /\ IdleUnzip /\ IdleOrbit
    /\ lat_min \in LatValues /\ lat_max \in LatValues
    /\ lon_min \in LonValues /\ lon_max \in LonValues
    /\ nalks \in (IF prog = "Stack" THEN {0, 2} ELSE {0})
    /\ nrlks \in (IF prog = "Stack" THEN {0, 2} ELSE {0})
    /\ demDir \in (IF prog = "Stack" THEN {"missing", "empty", "found"} ELSE {"missing"})
    /\ coordsOK = "none"
    /\ demBox = <<>>

CoordFrame == UNCHANGED <<prog, cpu, rsVars, uzVars, obVars, lat_min, lat_max, lon_min, lon_max,
                          nalks, nrlks, demDir>>

\* Stack.py lines 196-204: the two validations
S_Validate ==
    /\ prog = "Stack" /\ pc = "validate"
    /\ coordsOK' = validate_coordinates
    /\ IF ~validate_coordinates \/ ~validate_parameters
       THEN pc' = "exited" /\ exitCode' = 1
       ELSE pc' = "work" /\ UNCHANGED exitCode
    /\ UNCHANGED <<effects, success, demBox>>
    /\ CoordFrame

\* Stack.py lines 63-68: process_dir is created, then the DEM file is looked
\* for; find_dem_file's exception is not caught and ends the script with 1
S_Prepare ==
    /\ prog = "Stack" /\ pc = "work"
    /\ effects' = effects \cup {"mkdir"}
    /\ IF FindDemFileRaises
       THEN pc' = "exited" /\ exitCode' = 1
       ELSE pc' = "run" /\ UNCHANGED exitCode
    /\ UNCHANGED <<success, coordsOK, demBox>>
    /\ CoordFrame

\* Stack.py lines 98-125: stackSentinel.py is run
S_Run ==
    /\ prog = "Stack" /\ pc = "run"
    /\ \E o \in {"ok", "nonzero", "missing"} :
         /\ effects' = effects \cup {"exec"}
         /\ success' = (o = "ok")
    /\ pc' = "returned"
    /\ UNCHANGED <<exitCode, coordsOK, demBox>>
    /\ CoordFrame

\* download_S1_SLC_dem.py lines 121-123
D_Validate ==
    /\ prog = "dem" /\ pc = "validate"
    /\ coordsOK' = validate_coordinates
    /\ IF ~validate_coordinates
       THEN pc' = "exited" /\ exitCode' = 1
       ELSE pc' = "work" /\ UNCHANGED exitCode
    /\ UNCHANGED <<effects, success, demBox>>
    /\ CoordFrame

\* download_S1_SLC_dem.py lines 28-73: dem_dir is created, the box computed,
\* the log opened and dem.py run
D_Download ==
    /\ prog = "dem" /\ pc = "work"
    /\ demBox' = DemBox
    /\ \E o \in {"logfail", "ok", "nonzero", "missing"} :
         /\ effects' = effects \cup {"mkdir"} \cup (IF o = "logfail" THEN {} ELSE {"write", "exec"})
         /\ success' = (o = "ok")
    /\ pc' = "returned"
    /\ UNCHANGED <<exitCode, coordsOK>>
    /\ CoordFrame

\* Stack.py line 213, download_S1_SLC_dem.py line 134: sys.exit(0 if success else 1)
SD_Exit ==
    /\ prog \in {"Stack", "dem"} /\ pc = "returned"
    /\ exitCode' = IF success = TRUE THEN 0 ELSE 1
    /\ pc' = "exited"
    /\ UNCHANGED <<effects, success, coordsOK, demBox>>
    /\ CoordFrame

NextCoord == S_Validate \/ S_Prepare \/ S_Run \/ D_Validate \/ D_Download \/ SD_Exit

SpecCoord == InitCoord /\ [][NextCoord]_vars

---------------------------------------------------------------------------
(* The two parallel batches over the whole range of cpu counts and of the  *)
(* caller's n_jobs, each with a batch of one task.                         *)

InitPool ==
    \/ InitUnzipWith(1..MaxCpu, 0..MaxJobsArg, {{ZipA}})
    \/ InitOrbitWith(1..MaxCpu, {{SlcName(SatA, Day1, <<"A">>)}},
                     {{OrbitName(SatA, PrevDay(Day1), NextDay(Day1))}})

SpecPool == InitPool /\ [][NextUnzip \/ NextOrbit]_vars

---------------------------------------------------------------------------
(* A run of the system: one of the five programs. *)

Init == InitRunStack \/ InitUnzip \/ InitOrbit \/ InitCoord
Next == NextRunStack \/ NextUnzip \/ NextOrbit \/ NextCoord
Spec == Init /\ [][Next]_vars

---------------------------------------------------------------------------
(* C1: in run_stack_processing, once a step's command has failed (non-zero *)
(* exit, or run.py missing) no later step is invoked and the run returns   *)
(* False: every failed invocation is the last one of the history, the run  *)
(* has returned False, and the steps are invoked in increasing order.      *)
C1_FailFast ==
    /\ \A p \in 1..Len(invoked) :
          invoked[p][3] # "ok" =>
             /\ p = Len(invoked)
             /\ pc \in {"returned", "exited"}
             /\ success = FALSE
    /\ \A p, q \in 1..Len(invoked) : p < q => invoked[p][1] < invoked[q][1]

\* a step failed while a later expected step still had its script
C1_Witness ==
    /\ prog = "RunStack" /\ pc = "exited"
    /\ Len(invoked) > 0
    /\ invoked[Len(invoked)][3] \in {"nonzero", "missing"}
    /\ \E k \in (invoked[Len(invoked)][1] + 1)..expected_files : matched_scripts(k) # <<>>


(* C2: re-running extraction is idempotent: a task whose archive an earlier *)
(* call extracted and returned True for ends the later call with True and  *)
(* without having opened the log file or the archive or extracted an entry. *)
C2_RerunSkips ==
    prog = "unzip" =>
        \A t \in Tasks :
            (zip_files[t] \in extractedOK /\ task[t].st # "pending") =>
                (task[t].st = "success" /\ task[t].touched = {})

(* C3: fault isolation: a failure of a task's action never leaves the      *)
(* worker as an exception, so the batch call is never abandoned.           *)
C3_NoTaskRaises ==
    prog = "unzip" =>
        /\ \A t \in Tasks : task[t].st # "raised"
        /\ (pc = "crashed" => task = <<>>)

(* C4: the counts unzip_S1_SLC_list reports add up to the number of tasks, *)
(* successful being the number of tasks that returned True and failed the  *)
(* number that returned False.                                             *)
C4_CountsAddUp ==
    (prog = "unzip" /\ pc = "reported") =>
        /\ successful + failed = Len(zip_files)
        /\ successful = Cardinality({ t \in Tasks : task[t].st = "success" })
        /\ failed = Cardinality({ t \in Tasks : task[t].st = "failure" })

\* a batch of two tasks reported with one success and one failure
C4_Witness ==
    /\ prog = "unzip" /\ pc = "reported"
    /\ Len(zip_files) = 2 /\ successful = 1 /\ failed = 1


(* C5: the exit code tells whether the run succeeded: the orbit download   *)
(* exits with 1 when a download failed and with 0 when every download       *)
(* succeeded.                                                               *)
C5_ExitCodeTellsFailure ==
    (prog = "orbit" /\ pc = "exited" /\ lst # <<>>) =>
        exitCode = (IF \E t \in Downloads : dl[t] = "failed" THEN 1 ELSE 0)

\* the validity window a file name encodes, as <<first day, last day>>
WindowOf(name) == <<SliceFromEnd(name, 35, 27), SliceFromEnd(name, 19, 11)>>
WindowAround(dt) == <<DateStr(PrevDay(dt)), DateStr(NextDay(dt))>>

(* C6: the orbit enumerator makes exactly one task for each acquisition    *)
(* date D of a local input file for which the listing has an entry with the *)
(* window [D-1, D+1], and no task for a date without such an entry.         *)
C6_OneTaskPerDate ==
    (prog = "orbit" /\ lst # <<>>) =>
        \A f \in zippedFiles :
            Cardinality({ t \in Downloads :
                            WindowOf(download_tasks[t].save_path) = WindowAround(AcqDate(f)) })
              = (IF \E e \in remote : WindowOf(e) = WindowAround(AcqDate(f)) THEN 1 ELSE 0)

(* C7: no two tasks of a batch have the same destination, so two workers   *)
(* never write the same path at the same time.                              *)
C7_DisjointDestinations ==
    /\ prog = "orbit" =>
          \A t, u \in Downloads :
              t # u => /\ download_tasks[t].save_path # download_tasks[u].save_path
                       /\ ~(dl[t] = "write" /\ dl[u] = "write"
                             /\ download_tasks[t].save_path = download_tasks[u].save_path)
    /\ prog = "unzip" =>
          \A t, u \in Tasks : t # u => safe_name(zip_files[t]) # safe_name(zip_files[u])

\* two workers have the same orbit file open for writing
C7_ConcurrentWriters ==
    \E t, u \in Downloads :
        /\ t # u /\ dl[t] = "write" /\ dl[u] = "write"
        /\ download_tasks[t].save_path = download_tasks[u].save_path


\* the four conditions on the coordinates
CoordsValid ==
    /\ lat_min < lat_max
    /\ lon_min < lon_max
    /\ \A c \in {lat_min, lat_max} : -90 * Scale <= c /\ c <= 90 * Scale
    /\ \A c \in {lon_min, lon_max} : -180 * Scale <= c /\ c <= 180 * Scale

(* C8: in Stack.py and download_S1_SLC_dem.py coordinates that break one   *)
(* of the four conditions are rejected with exit code 1 before any side    *)
(* effect, and coordinates that meet all four are accepted.                *)
C8_ValidationFirst ==
    prog \in {"Stack", "dem"} =>
        /\ ~CoordsValid => /\ effects = {}
                           /\ pc \in {"validate", "exited"}
                           /\ (pc = "exited" => exitCode = 1 /\ coordsOK = FALSE)
        /\ (CoordsValid /\ pc # "validate") => coordsOK = TRUE

\* lat_min = 10, lat_max = 5 has been rejected
C8_Witness ==
    /\ prog = "Stack" /\ pc = "exited"
    /\ lat_min = 10 * Scale /\ lat_max = 5 * Scale
    /\ lon_min < lon_max

(* C9: when the source location is missing or holds no matching entry the  *)
(* operation ends in an error, and no directory has been created, no file  *)
(* written, no request sent and no command run.                            *)
C9_NotFoundLeavesNothing ==
    /\ (prog = "Stack" /\ pc = "exited" /\ coordsOK = TRUE /\ validate_parameters /\ FindDemFileRaises)
          => (exitCode = 1 /\ effects = {})
    /\ (prog = "RunStack" /\ pc = "exited" /\ FindRunFilesRaises)
          => (exitCode = 1 /\ effects = {})
    /\ (prog = "orbit" /\ pc = "exited" /\ zippedDir = "missing")
          => (exitCode = 1 /\ effects = {})
    /\ (prog = "unzip" /\ entry = "function" /\ dataDir # "dir" /\ pc # "get")
          => (pc = "crashed" /\ effects = {})


\* clamp(x, lo, hi)
ClampTo(x, lo, hi) == IF x < lo THEN lo ELSE IF x > hi THEN hi ELSE x

(* C10: without an override the pool size of a parallel batch is           *)
(* clamp(floor(cpu_count / 4), 2, 8), so between 2 and 8 (16 cpus give 4,  *)
(* 2 cpus give 2); an explicit n_jobs of unzip_S1_SLC_list is used as is.  *)
C10_PoolSize ==
    /\ (prog = "unzip" /\ n_jobs # 0) =>
          /\ n_jobs = (IF n_jobs_arg = 0 THEN ClampTo(cpu \div 4, 2, 8) ELSE n_jobs_arg)
          /\ n_jobs_arg = 0 => (2 <= n_jobs /\ n_jobs <= 8)
          /\ (n_jobs_arg = 0 /\ cpu = 16) => n_jobs = 4
          /\ (n_jobs_arg = 0 /\ cpu = 2) => n_jobs = 2
    /\ (prog = "orbit" /\ njobs # 0) =>
          /\ njobs = ClampTo(cpu \div 4, 2, 8)
          /\ cpu = 16 => njobs = 4
          /\ cpu = 2 => njobs = 2

\* a batch on 2 cpus got the floor of 2 workers and its tasks have settled
C10_Witness ==
    /\ prog = "unzip" /\ pc = "reported"
    /\ cpu = 2 /\ n_jobs_arg = 0 /\ n_jobs = 2


\* RunStack.py line 101: f"log_run{i:02d}.log"
step_log_file(k) == <<"l", "o", "g", "_", "r", "u", "n">> \o Fmt02d(k) \o <<".", "l", "o", "g">>

\* the files in orbits_dir that are not the payload of a download task
OrbitLogFiles == orbitFiles \ { download_tasks[t].save_path : t \in Downloads }

\* the extraction tasks: a log per task at the end of the batch, named
\* unzip_<stem>.log, and no two running tasks with the same log file
C11_UnzipLogs ==
    prog = "unzip" =>
        /\ pc = "reported" =>
              /\ \A t \in Tasks : log_file(zip_files[t]) \in DOMAIN logs
              /\ Cardinality(DOMAIN logs) = Len(zip_files)
        /\ \A t, u \in Tasks :
              (t # u /\ Running(t) /\ Running(u)) => log_file(zip_files[t]) # log_file(zip_files[u])

\* the sequential steps: the invoked steps have pairwise distinct log files
C11_StepLogs ==
    prog = "RunStack" =>
        \A p, q \in 1..Len(invoked) :
            p # q => step_log_file(invoked[p][1]) # step_log_file(invoked[q][1])

\* the orbit downloads: one log file per executed download task
C11_OrbitLogs ==
    (prog = "orbit" /\ pc = "exited" /\ lst # <<>>) =>
        Cardinality(OrbitLogFiles) = Cardinality({ t \in Downloads : dl[t] \in {"ok", "failed"} })

(* C11: after a batch every executed task (extraction, orbit download,     *)
(* sequential step) has produced exactly one log file named from its       *)
(* identity, distinct tasks have distinct log files, and two running tasks *)
(* never write the same log file.                                          *)
C11_OneLogPerTask == C11_UnzipLogs /\ C11_StepLogs /\ C11_OrbitLogs


\* the positions of a task inside unzip_S1_SLC
RunningStates == {"openlog", "openzip", "extract", "handler"}

\* one step of one task: it stays, it is taken by a worker (and returns at
\* once when the skip test holds), it goes on running, or it returns
C12_TaskMove(a, b) ==
    \/ a = b
    \/ a = "pending" /\ b \in RunningStates \cup {"success"}
    \/ a \in RunningStates /\ b \in RunningStates \cup {"success", "failure"}

\* no task goes back to pending or running, or anywhere else than success
\* or failure
C12_NoReentry ==
    [][(prog = "unzip" /\ pc = "parallel") =>
          \A t \in Tasks : C12_TaskMove(task[t].st, task'[t].st)]_vars

\* the counts exist only when every task has settled
C12_Barrier ==
    prog = "unzip" =>
        ((pc = "reported" \/ successful # -1 \/ failed # -1 \/ results # <<>>)
            => \A t \in Tasks : Settled(t))

\* when the batch call has ended every task has been executed
C12_AllExecuted ==
    (prog = "unzip" /\ pc \in {"reported", "crashed"}) => \A t \in Tasks : Settled(t)

(* C12: in unzip_S1_SLC_list every task of the batch moves pending ->      *)
(* running -> (success | failure) exactly once, never back to pending or   *)
(* running, and the counts are computed only when every task has settled.  *)
C12_JoinBarrier == C12_NoReentry /\ []C12_Barrier /\ []C12_AllExecuted


\* every run_* script found in run_files_dir was invoked exactly once and its
\* command exited zero
AllRunFilesProcessed ==
    /\ ~FindRunFilesRaises
    /\ \A s \in runFiles :
          /\ Cardinality({ p \in 1..Len(invoked) : invoked[p][2] = s }) = 1
          /\ \A p \in 1..Len(invoked) : invoked[p][2] = s => invoked[p][3] = "ok"

(* C13: run_stack_processing returns True if and only if every run_* script *)
(* found in run_files_dir was invoked exactly once and exited zero, for     *)
(* every combination of found scripts and expected_files.                   *)
C13_TrueIffAllProcessed ==
    (prog = "RunStack" /\ pc \in {"returned", "exited"}) =>
        ((success = TRUE) <=> AllRunFilesProcessed)


(* C14: whenever unzip_S1_SLC has returned False after extracting at least *)
(* one entry of the archive, the directory the entries were extracted into *)
(* no longer exists in target_dir.                                          *)
C14_CleanupOnFailure ==
    prog = "unzip" =>
        \A t \in Tasks :
            (task[t].st = "failure" /\ "entry" \in task[t].touched)
                => ~DirExists(TopDir(zip_files[t]))


(* C15: for every validated bounding box the box download_S1_SLC_dem hands *)
(* to dem.py reaches at least 1 degree beyond the input on each of the     *)
(* four sides.                                                              *)
C15_DemBuffer ==
    (prog = "dem" /\ pc \in {"returned", "exited"} /\ coordsOK = TRUE) =>
        /\ demBox.lat_min_dem * Scale <= lat_min - Scale
        /\ demBox.lat_max_dem * Scale >= lat_max + Scale
        /\ demBox.lon_min_dem * Scale <= lon_min - Scale
        /\ demBox.lon_max_dem * Scale >= lon_max + Scale

=============================================================================
